---- MODULE Spec2Model ----
(***************************************************************************)
(* A model of psft_client.py: the PeopleSoft ExecuteQuery client.          *)
(*                                                                         *)
(*   PeopleSoftClient.__init__            -> ClientInit                    *)
(*   PeopleSoftClient._build_executequery_url -> BuildExecuteQueryUrl      *)
(*   PeopleSoftClient.execute_query       -> the actions ExecuteQueryCall, *)
(*        ExecBuildUrl, ExecGetResponse, ExecGetTransportError,            *)
(*        ExecReturnText, ExecRaiseRuntimeError                            *)
(*   parse_executequery_xml               -> ParseExecuteQueryXml          *)
(*                                                                         *)
(* A Python str is a sequence of symbols.  A symbol is a one-character     *)
(* string; the four parameter names that the f-string of                   *)
(* _build_executequery_url writes are one symbol each (the words of        *)
(* Keywords), so that a parameter of a built URL can be read back from the *)
(* URL without knowing how it was built.                                   *)
(***************************************************************************)
EXTENDS Integers, Sequences, FiniteSets, TLC

VARIABLES
    client,      \* the PeopleSoftClient object (self)
    args,        \* the arguments of the call in progress
    pc,          \* the position of the call in progress
    url,         \* the result of _build_executequery_url (or its exception)
    gets,        \* the requests.get calls issued by the invocation in progress
    resp,        \* the Response object requests.get returned
    outcome,     \* what execute_query handed to its caller: a str or an exception
    calls,       \* the number of invocations started on this client
    xml_text,    \* the text handed to parse_executequery_xml, as its markup tokens
    parsed       \* what parse_executequery_xml handed to its caller

vars == <<client, args, pc, url, gets, resp, outcome, calls, xml_text, parsed>>

(***************************************************************************)
(* Bounds of the model.                                                    *)
(***************************************************************************)
MaxPrompts == 2     \* entries of a prompts dict
MaxCalls == 2       \* invocations of execute_query on one client
MaxNodes == 3       \* elements of an XML document

(***************************************************************************)
(* Python values.  An Optional[str] (or a value of the wrong type handed   *)
(* in where a str is expected) is a record: kind "str" with its symbols,   *)
(* kind "None", or kind "int" with its number.                             *)
(***************************************************************************)
Str(s) == [kind |-> "str", s |-> s, n |-> 0]
None == [kind |-> "None", s |-> <<>>, n |-> 0]
PyInt(n) == [kind |-> "int", s |-> <<>>, n |-> n]

\* Python truthiness: None, "" and 0 are falsy.
Truthy(v) ==
    CASE v.kind = "None" -> FALSE
      [] v.kind = "str" -> v.s # <<>>
      [] v.kind = "int" -> v.n # 0

\* x or y
Or(x, y) == IF Truthy(x) THEN x ELSE y

\* str.rstrip(c) for a one-symbol c: every trailing c is removed.
RECURSIVE RStrip(_, _)
RStrip(s, c) ==
    IF s # <<>> /\ s[Len(s)] = c THEN RStrip(SubSeq(s, 1, Len(s) - 1), c) ELSE s

\* The decimal digits of a natural number, as format() writes them.
Digit(d) == <<"0", "1", "2", "3", "4", "5", "6", "7", "8", "9">>[d + 1]

RECURSIVE NatToStr(_)
NatToStr(n) == IF n < 10 THEN <<Digit(n)>> ELSE NatToStr(n \div 10) \o <<Digit(n % 10)>>

\* f"{n}" for an int n.
FormatInt(n) == IF n < 0 THEN <<"-">> \o NatToStr(0 - n) ELSE NatToStr(n)

\* sep.join(items) for a sequence of str values (the caller checks the types).
RECURSIVE Join(_, _)
Join(sep, items) ==
    IF items = <<>> THEN <<>>
    ELSE IF Len(items) = 1 THEN items[1].s
    ELSE items[1].s \o sep \o Join(sep, Tail(items))

(***************************************************************************)
(* PeopleSoftClient.__init__                                               *)
(***************************************************************************)
ClientInit(base_url, auth, ps_token, verify, timeout) ==
    [base_url |-> RStrip(base_url, "/"), auth |-> auth, ps_token |-> ps_token,
     verify |-> verify, timeout |-> timeout]

(***************************************************************************)
(* PeopleSoftClient._build_executequery_url                                *)
(***************************************************************************)
Keywords == {"isconnectedquery", "maxrows", "prompt_uniquepromptname", "prompt_fieldvalue"}

\* The variant without .rstrip("/").
PathNoStrip(self, security, query_name, output_path) ==
    self.base_url \o <<"/">> \o security \o <<"/">> \o query_name \o <<"/">> \o output_path

\* path = f"{self.base_url}/{security}/{query_name}/{output_path}".rstrip("/")
PathOf(self, security, query_name, output_path) ==
    RStrip(self.base_url \o <<"/">> \o security \o <<"/">> \o query_name
               \o <<"/">> \o output_path, "/")

\* prompts.keys(), in insertion order
PromptKeys(prompts) == [i \in 1..Len(prompts) |-> Str(prompts[i].name)]

\* The variant without `or ""`: None is written as str(None).
PromptValuesNoDefault(prompts) ==
    [i \in 1..Len(prompts) |->
        IF prompts[i].value.kind = "None" THEN Str(<<"N", "o", "n", "e">>)
        ELSE prompts[i].value]

\* The variant that leaves falsy values out of the join.
RECURSIVE PromptValuesSkipEmpty(_)
PromptValuesSkipEmpty(prompts) ==
    IF prompts = <<>> THEN <<>>
    ELSE IF Truthy(prompts[1].value)
         THEN <<prompts[1].value>> \o PromptValuesSkipEmpty(Tail(prompts))
         ELSE PromptValuesSkipEmpty(Tail(prompts))

\* (prompts[k] or "") for k in prompts.keys()
PromptValues(prompts) == [i \in 1..Len(prompts) |-> Or(prompts[i].value, Str(<<>>))]

\* The f-string of the query string, in the order it is written.
QueryStr(isconnectedquery, maxrows, prompt_names, prompt_values) ==
    <<"isconnectedquery", "=">> \o isconnectedquery
        \o <<"&", "maxrows", "=">> \o FormatInt(maxrows)
        \o <<"&", "prompt_uniquepromptname", "=">> \o prompt_names
        \o <<"&", "prompt_fieldvalue", "=">> \o prompt_values

\* The result is the URL, or the TypeError that str.join raises on an item
\* that is not a str.
BuildExecuteQueryUrl(self, a) ==
    LET path == PathOf(self, a.security, a.query_name, a.output_path)
        keys == PromptKeys(a.prompts)
        values == PromptValues(a.prompts)
    IN  IF \E i \in 1..Len(values) : values[i].kind # "str"
        THEN [kind |-> "TypeError", url |-> <<>>]
        ELSE [kind |-> "ok",
              url |-> path \o <<"?">>
                        \o QueryStr(a.isconnectedquery, a.maxrows,
                                    Join(<<",">>, keys), Join(<<",">>, values))]

(***************************************************************************)
(* The inputs of the model.                                                *)
(***************************************************************************)
NoAuth == [kind |-> "None", user |-> <<>>, password |-> <<>>]
Pair(u, p) == [kind |-> "pair", user |-> u, password |-> p]

BaseUrls == {<<"h">>, <<"h", "/">>}
Auths == {NoAuth, Pair(<<"P">>, <<"w">>), Pair(<<>>, <<>>)}
Tokens == {None, Str(<<>>), Str(<<"t">>)}
Verifies == {TRUE, FALSE}
Timeouts == {60}

Clients ==
    {ClientInit(b, au, tk, vf, tm) :
        b \in BaseUrls, au \in Auths, tk \in Tokens, vf \in Verifies, tm \in Timeouts}

PromptNames == {<<"A">>, <<"B">>, <<"A", ",", "B">>}
PromptVals == {None, Str(<<>>), Str(<<"I">>), Str(<<"1", ",", "2">>), PyInt(5)}
PromptEntries == [name : PromptNames, value : PromptVals]

\* A dict: an ordered sequence of entries whose keys differ.
PromptDicts ==
    UNION {{p \in [1..n -> PromptEntries] :
                \A i, j \in 1..n : i # j => p[i].name # p[j].name} : n \in 0..MaxPrompts}

Securities == {<<"p">>, <<>>}
QueryNames == {<<"Q">>, <<>>}
OutputPaths == {<<"X", "/", "N">>, <<>>, <<"/">>}
MaxRowsValues == {10, 1000, -5}
ConnectedFlags == {<<"N">>, <<"Y">>}

BuildArgs ==
    [query_name : QueryNames, prompts : PromptDicts, maxrows : MaxRowsValues,
     isconnectedquery : ConnectedFlags, security : Securities, output_path : OutputPaths]

NoArgs ==
    [query_name |-> <<>>, prompts |-> <<>>, maxrows |-> 0,
     isconnectedquery |-> <<>>, security |-> <<>>, output_path |-> <<>>]
NoUrl == [kind |-> "none", url |-> <<>>]
NoResp == [kind |-> "none", status_code |-> 0, text |-> <<>>]
NoOutcome == [kind |-> "none", value |-> <<>>]
NoParsed == [kind |-> "none", rows |-> <<>>]

(***************************************************************************)
(* The URL builder on its own: a client is constructed, and                *)
(* _build_executequery_url is called on it with any arguments.             *)
(***************************************************************************)
InitUrl ==
    /\ client \in Clients
    /\ args = NoArgs
    /\ pc = "ready"
    /\ url = NoUrl
    /\ gets = <<>>
    /\ resp = NoResp
    /\ outcome = NoOutcome
    /\ calls = 0
    /\ xml_text = <<>>
    /\ parsed = NoParsed

CallBuildUrl ==
    /\ pc = "ready"
    /\ \E a \in BuildArgs :
          /\ args' = a
          /\ url' = BuildExecuteQueryUrl(client, a)
    /\ pc' = "built"
    /\ UNCHANGED <<client, gets, resp, outcome, calls, xml_text, parsed>>

NextUrl == CallBuildUrl

SpecUrl == InitUrl /\ [][NextUrl]_vars

(***************************************************************************)
(* PeopleSoftClient.execute_query, step by step: the URL is built, one     *)
(* requests.get is issued, the network answers with a response or fails,   *)
(* and the status is checked.  A client is reused for MaxCalls calls.      *)
(***************************************************************************)
\* The keyword defaults of execute_query, with a prompts dict of the caller's.
ExecArgs ==
    {a \in BuildArgs :
        /\ a.maxrows = 1000
        /\ a.isconnectedquery = <<"N">>
        /\ a.security = <<"p">>
        /\ a.output_path = <<"X", "/", "N">>
        /\ a.query_name = <<"Q">>
        /\ Len(a.prompts) <= 1}

\* What the network can answer: a response of any status, or no response.
StatusCodes == {101, 200, 299, 304, 400, 404, 500, 599}
Bodies == {<<>>, <<"O", "R", "A">>}
TransportErrors == {"ConnectionError", "Timeout", "SSLError"}

\* The variant that sets the cookie without testing self.ps_token.
CookiesAlways(self) == {<<"PS_TOKEN", self.ps_token.s>>}

\* cookies = {}; if self.ps_token: cookies["PS_TOKEN"] = self.ps_token
Cookies(self) == IF Truthy(self.ps_token) THEN {<<"PS_TOKEN", self.ps_token.s>>} ELSE {}

\* The arguments of requests.get(url, auth=, cookies=, verify=, timeout=).
GetRequest(self, u) ==
    [url |-> u, auth |-> self.auth, cookies |-> Cookies(self),
     verify |-> self.verify, timeout |-> self.timeout]

\* Response.raise_for_status() raises HTTPError for a 4xx or 5xx status only.
RaisesForStatus(status_code) == 400 <= status_code /\ status_code < 600

\* f"PeopleSoft ExecuteQuery call failed: {resp.status_code}\n{resp.text}"
FailureMessage(r) ==
    <<"PeopleSoft ExecuteQuery call failed: ">> \o FormatInt(r.status_code)
        \o <<"\n">> \o r.text

InitHttp ==
    /\ client \in Clients
    /\ args = NoArgs
    /\ pc = "ready"
    /\ url = NoUrl
    /\ gets = <<>>
    /\ resp = NoResp
    /\ outcome = NoOutcome
    /\ calls = 0
    /\ xml_text = <<>>
    /\ parsed = NoParsed

\* The caller invokes execute_query.
ExecuteQueryCall ==
    /\ pc = "ready"
    /\ calls < MaxCalls
    /\ \E a \in ExecArgs : args' = a
    /\ pc' = "build"
    /\ url' = NoUrl
    /\ gets' = <<>>
    /\ resp' = NoResp
    /\ outcome' = NoOutcome
    /\ calls' = calls + 1
    /\ UNCHANGED <<client, xml_text, parsed>>

\* url = self._build_executequery_url(...); its exception leaves execute_query.
ExecBuildUrl ==
    /\ pc = "build"
    /\ url' = BuildExecuteQueryUrl(client, args)
    /\ IF url'.kind = "ok"
       THEN pc' = "get" /\ UNCHANGED outcome
       ELSE pc' = "ready" /\ outcome' = [kind |-> url'.kind, value |-> <<>>]
    /\ UNCHANGED <<client, args, gets, resp, calls, xml_text, parsed>>

\* resp = requests.get(...) returns a response.
ExecGetResponse ==
    /\ pc = "get"
    /\ gets' = Append(gets, GetRequest(client, url.url))
    /\ \E st \in StatusCodes, body \in Bodies :
          resp' = [kind |-> "response", status_code |-> st, text |-> body]
    /\ pc' = "check"
    /\ UNCHANGED <<client, args, url, outcome, calls, xml_text, parsed>>

\* The variant that issues the GET again after a failure.
ExecGetTransportErrorRetry ==
    /\ pc = "get"
    /\ Len(gets) < 2
    /\ gets' = Append(gets, GetRequest(client, url.url))
    /\ pc' = "get"
    /\ UNCHANGED <<client, args, url, resp, outcome, calls, xml_text, parsed>>

\* The variant with requests.get inside the try block.
ExecGetTransportErrorWrapped ==
    /\ pc = "get"
    /\ gets' = Append(gets, GetRequest(client, url.url))
    /\ outcome' = [kind |-> "RuntimeError", value |-> <<>>]
    /\ pc' = "ready"
    /\ UNCHANGED <<client, args, url, resp, calls, xml_text, parsed>>

\* requests.get(...) raises: no response was received.  The call is outside the
\* try block, so the exception leaves execute_query as it is.
ExecGetTransportError ==
    /\ pc = "get"
    /\ gets' = Append(gets, GetRequest(client, url.url))
    /\ \E e \in TransportErrors : outcome' = [kind |-> e, value |-> <<>>]
    /\ pc' = "ready"
    /\ UNCHANGED <<client, args, url, resp, calls, xml_text, parsed>>

\* resp.raise_for_status() does not raise: return resp.text
ExecReturnText ==
    /\ pc = "check"
    /\ ~RaisesForStatus(resp.status_code)
    /\ outcome' = [kind |-> "return", value |-> resp.text]
    /\ pc' = "ready"
    /\ UNCHANGED <<client, args, url, gets, resp, calls, xml_text, parsed>>

\* resp.raise_for_status() raises: raise RuntimeError(...) from e
ExecRaiseRuntimeError ==
    /\ pc = "check"
    /\ RaisesForStatus(resp.status_code)
    /\ outcome' = [kind |-> "RuntimeError", value |-> FailureMessage(resp)]
    /\ pc' = "ready"
    /\ UNCHANGED <<client, args, url, gets, resp, calls, xml_text, parsed>>

NextHttp ==
    \/ ExecuteQueryCall
    \/ ExecBuildUrl
    \/ ExecGetResponse
    \/ ExecGetTransportError
    \/ ExecReturnText
    \/ ExecRaiseRuntimeError

SpecHttp == InitHttp /\ [][NextHttp]_vars

(***************************************************************************)
(* parse_executequery_xml.  The XML text is the sequence of its markup     *)
(* tokens: a start tag (with the namespace URI its prefix or the default   *)
(* namespace resolves to, empty for none), character data, an end tag.     *)
(***************************************************************************)
StartTag(uri, local) == [t |-> "start", uri |-> uri, local |-> local, s |-> <<>>]
EndTag(uri, local) == [t |-> "end", uri |-> uri, local |-> local, s |-> <<>>]
CharData(s) == [t |-> "text", uri |-> <<>>, local |-> <<>>, s |-> s]

Whitespace == {" ", "\n", "\t"}

\* str.strip(): leading and trailing whitespace removed.
RECURSIVE LStripWs(_)
LStripWs(s) == IF s # <<>> /\ s[1] \in Whitespace THEN LStripWs(Tail(s)) ELSE s

RECURSIVE RStripWs(_)
RStripWs(s) ==
    IF s # <<>> /\ s[Len(s)] \in Whitespace THEN RStripWs(SubSeq(s, 1, Len(s) - 1)) ELSE s

StripWs(s) == LStripWs(RStripWs(s))

\* The tag ElementTree gives an element: "{uri}local", or "local" without a
\* namespace.
QName(uri, local) == IF uri = <<>> THEN local ELSE <<"{">> \o uri \o <<"}">> \o local

\* The parser's state after a prefix of the text: the elements built so far in
\* the order they started (tag, text, tail, parent's index), the indices of the
\* open elements, whether the last event was a start tag (character data is then
\* the text of the open element, else the tail of the last closed one), and
\* whether the root has been closed.
ParserStart ==
    [ok |-> TRUE, nodes |-> <<>>, stack |-> <<>>, afterStart |-> FALSE,
     lastClosed |-> 0, closed |-> FALSE]

\* One token fed to the parser.  expat refuses: a start tag after the root is
\* closed, a namespace URI holding the separator "}", an end tag that does not
\* match the open element, character data outside the root that is not
\* whitespace.
Feed(st, tok) ==
    IF ~st.ok THEN st
    ELSE IF tok.t = "start" THEN
        IF st.closed \/ (\E i \in 1..Len(tok.uri) : tok.uri[i] = "}")
        THEN [st EXCEPT !.ok = FALSE]
        ELSE [st EXCEPT
                !.nodes = Append(@, [tag |-> QName(tok.uri, tok.local), text |-> None,
                                     tail |-> None,
                                     parent |-> IF st.stack = <<>> THEN 0
                                                ELSE st.stack[Len(st.stack)]]),
                !.stack = Append(@, Len(st.nodes) + 1),
                !.afterStart = TRUE]
    ELSE IF tok.t = "end" THEN
        IF st.stack = <<>> \/ (st.stack # <<>> /\
               st.nodes[st.stack[Len(st.stack)]].tag # QName(tok.uri, tok.local))
        THEN [st EXCEPT !.ok = FALSE]
        ELSE [st EXCEPT
                !.lastClosed = st.stack[Len(st.stack)],
                !.stack = SubSeq(@, 1, Len(@) - 1),
                !.afterStart = FALSE,
                !.closed = Len(st.stack) = 1]
    ELSE IF st.stack = <<>> THEN
        IF \A i \in 1..Len(tok.s) : tok.s[i] \in Whitespace THEN st
        ELSE [st EXCEPT !.ok = FALSE]
    ELSE IF st.afterStart THEN
        LET top == st.stack[Len(st.stack)]
            old == st.nodes[top].text
        IN  [st EXCEPT !.nodes[top].text = Str((IF old.kind = "str" THEN old.s ELSE <<>>) \o tok.s)]
    ELSE
        LET old == st.nodes[st.lastClosed].tail
        IN  [st EXCEPT !.nodes[st.lastClosed].tail =
                            Str((IF old.kind = "str" THEN old.s ELSE <<>>) \o tok.s)]

RECURSIVE FeedAll(_, _)
FeedAll(st, toks) == IF toks = <<>> THEN st ELSE FeedAll(Feed(st, toks[1]), Tail(toks))

\* The lenient variant: whatever was built before the parser stopped.
FromStringLenient(text) ==
    LET st == FeedAll(ParserStart, text)
    IN  IF st.nodes = <<>> THEN [kind |-> "ParseError", nodes |-> <<>>]
        ELSE [kind |-> "ok", nodes |-> st.nodes]

\* ET.fromstring(xml_text): the tree, root first, or ParseError when the text is
\* refused or ends before the root is closed.
FromString(text) ==
    LET st == FeedAll(ParserStart, text)
    IN  IF st.ok /\ st.closed THEN [kind |-> "ok", nodes |-> st.nodes]
        ELSE [kind |-> "ParseError", nodes |-> <<>>]

\* list(node): the immediate child elements of node i, in document order.
Children(nodes, i) == SelectSeq([j \in 1..Len(nodes) |-> j], LAMBDA j : nodes[j].parent = i)

RECURSIVE IterFrom(_, _)
RECURSIVE IterEach(_, _)
\* node.iter(): the element itself, then the iteration of each child in turn.
IterFrom(nodes, i) == <<i>> \o IterEach(nodes, Children(nodes, i))
IterEach(nodes, js) ==
    IF js = <<>> THEN <<>> ELSE IterFrom(nodes, js[1]) \o IterEach(nodes, Tail(js))

\* The variant that compares the tag with its namespace.
StripNsKeep(tag) == tag

\* strip_ns(tag): tag.split("}", 1)[1] if "}" in tag else tag
StripNs(tag) ==
    LET at == {i \in 1..Len(tag) : tag[i] = "}"}
    IN  IF at = {} THEN tag
        ELSE LET first == CHOOSE i \in at : \A j \in at : i <= j
             IN  SubSeq(tag, first + 1, Len(tag))

RowName == <<"r", "o", "w">>

\* The variant that reads every descendant: for child in node.iter()
FieldElementsDeep(nodes, i) == Tail(IterFrom(nodes, i))

\* The elements a row's fields are read from: for child in list(node)
FieldElements(nodes, i) == Children(nodes, i)

\* (child.text or "").strip()
FieldValue(child) == StripWs(Or(child.text, Str(<<>>)).s)

RECURSIVE RowDictFrom(_, _, _)
\* row_dict[field_name] = value, for each child in turn
RowDictFrom(d, nodes, js) ==
    IF js = <<>> THEN d
    ELSE LET child == nodes[js[1]]
             field_name == StripNs(child.tag)
             value == FieldValue(child)
         IN  RowDictFrom([k \in DOMAIN d \cup {field_name} |->
                              IF k = field_name THEN value ELSE d[k]],
                         nodes, Tail(js))

RECURSIVE RowsFrom(_, _)
\* for node in root.iter(): a row is appended for each element named row
RowsFrom(nodes, order) ==
    IF order = <<>> THEN <<>>
    ELSE LET rest == RowsFrom(nodes, Tail(order))
         IN  IF StripNs(nodes[order[1]].tag) = RowName
             THEN <<RowDictFrom(<<>>, nodes, FieldElements(nodes, order[1]))>> \o rest
             ELSE rest

ParseExecuteQueryXml(text) ==
    LET root == FromString(text)
    IN  IF root.kind = "ParseError" THEN [kind |-> "ParseError", rows |-> <<>>]
        ELSE [kind |-> "ok", rows |-> RowsFrom(root.nodes, IterFrom(root.nodes, 1))]

(***************************************************************************)
(* The caller writes an XML text, token by token, of at most MaxNodes      *)
(* elements, and hands it to parse_executequery_xml at any point.  A text  *)
(* can be cut short, closed with the wrong tag, or go on after its root.   *)
(***************************************************************************)
Namespaces == {<<>>, <<"u">>, <<"a", "}", "b">>}
LocalNames == {RowName, <<"A">>, <<"B">>}
Texts == {<<" ", "\n">>, <<" ", "1", " ", "2", "\n">>}

Scanned == FeedAll(ParserStart, xml_text)

InitXml ==
    /\ client = ClientInit(<<"h">>, NoAuth, None, TRUE, 60)
    /\ args = NoArgs
    /\ pc = "ready"
    /\ url = NoUrl
    /\ gets = <<>>
    /\ resp = NoResp
    /\ outcome = NoOutcome
    /\ calls = 0
    /\ xml_text = <<>>
    /\ parsed = NoParsed

\* Every element of a document is in the document's namespace.
WriteStartTag ==
    /\ pc = "ready"
    /\ Scanned.ok
    /\ Len(Scanned.nodes) < MaxNodes
    /\ \E local \in LocalNames, uri \in Namespaces :
          /\ xml_text # <<>> => uri = xml_text[1].uri
          /\ xml_text' = Append(xml_text, StartTag(uri, local))
    /\ UNCHANGED <<client, args, pc, url, gets, resp, outcome, calls, parsed>>

\* Character data is written as the text of a field element (one not named row).
WriteCharData ==
    /\ pc = "ready"
    /\ Scanned.ok
    /\ xml_text # <<>> /\ xml_text[Len(xml_text)].t = "start"
    /\ xml_text[Len(xml_text)].local # RowName
    /\ \E s \in Texts : xml_text' = Append(xml_text, CharData(s))
    /\ UNCHANGED <<client, args, pc, url, gets, resp, outcome, calls, parsed>>

\* The local name of the innermost open element.
OpenName == StripNs(Scanned.nodes[Scanned.stack[Len(Scanned.stack)]].tag)

WriteEndTag ==
    /\ pc = "ready"
    /\ Scanned.ok
    /\ Scanned.stack # <<>>
    /\ xml_text' = Append(xml_text, EndTag(xml_text[1].uri, OpenName))
    /\ UNCHANGED <<client, args, pc, url, gets, resp, outcome, calls, parsed>>

\* An end tag that does not name the open element.
WriteWrongEndTag ==
    /\ pc = "ready"
    /\ Scanned.ok
    /\ Scanned.stack # <<>>
    /\ xml_text' = Append(xml_text, EndTag(xml_text[1].uri,
                                           IF OpenName = RowName THEN <<"A">> ELSE RowName))
    /\ UNCHANGED <<client, args, pc, url, gets, resp, outcome, calls, parsed>>

\* rows = parse_executequery_xml(xml_text)
ParseCall ==
    /\ pc = "ready"
    /\ parsed' = ParseExecuteQueryXml(xml_text)
    /\ pc' = "parsed"
    /\ UNCHANGED <<client, args, url, gets, resp, outcome, calls, xml_text>>

NextXml ==
    \/ WriteStartTag
    \/ WriteCharData
    \/ WriteEndTag
    \/ WriteWrongEndTag
    \/ ParseCall

SpecXml == InitXml /\ [][NextXml]_vars

(***************************************************************************)
(* Reading a built URL back, as its receiver would.                        *)
(***************************************************************************)
IsKeyword(x) == x \in Keywords

Minimum(S) == CHOOSE x \in S : \A y \in S : x <= y

\* The value of parameter key: what stands between "key=" and the "&" of the
\* next parameter name (or the end of the URL).
UrlParam(u, key) ==
    LET i == Minimum({j \in 1..Len(u) : u[j] = key})
        later == {j \in (i + 1)..Len(u) : IsKeyword(u[j])}
        stop == IF later = {} THEN Len(u) ELSE Minimum(later) - 2
    IN  SubSeq(u, i + 2, stop)

\* s.split(c): the fields of s between the occurrences of c.
Split(s, c) ==
    LET pos == {i \in 1..Len(s) : s[i] = c}
        m == Cardinality(pos)
        Nth(k) == CHOOSE i \in pos : Cardinality({j \in pos : j < i}) = k - 1
        first(k) == IF k = 1 THEN 1 ELSE Nth(k - 1) + 1
        last(k) == IF k = m + 1 THEN Len(s) ELSE Nth(k) - 1
    IN  [k \in 1..(m + 1) |-> SubSeq(s, first(k), last(k))]

RECURSIVE OffsetOf(_, _)
\* Where part i starts in the comma-joined text of parts, less one.
OffsetOf(parts, i) ==
    IF i = 1 THEN 0 ELSE OffsetOf(parts, i - 1) + Len(parts[i - 1]) + 1

\* s is parts[1],parts[2],...,parts[n]: each part at its place, a comma before
\* every part but the first, and nothing else.
IsCommaJoined(s, parts) ==
    LET n == Len(parts)
    IN  /\ Len(s) = IF n = 0 THEN 0 ELSE OffsetOf(parts, n) + Len(parts[n])
        /\ \A i \in 1..n :
              /\ SubSeq(s, OffsetOf(parts, i) + 1, OffsetOf(parts, i) + Len(parts[i]))
                    = parts[i]
              /\ i > 1 => s[OffsetOf(parts, i)] = ","

HasComma(s) == \E i \in 1..Len(s) : s[i] = ","

RECURSIVE DecimalValue(_)
\* The number a text of decimal digits (with an optional sign) denotes.
DecimalValue(d) ==
    IF d = <<>> THEN 0
    ELSE IF d[1] = "-" THEN 0 - DecimalValue(Tail(d))
    ELSE LET last == d[Len(d)]
             v == CHOOSE k \in 0..9 : Digit(k) = last
         IN  10 * DecimalValue(SubSeq(d, 1, Len(d) - 1)) + v

Built == pc = "built" /\ url.kind = "ok"

PromptNameAt(i) == args.prompts[i].name
\* The text a prompt value stands for: its own, or nothing for None.
PromptTextAt(i) ==
    IF args.prompts[i].value.kind = "str" THEN args.prompts[i].value.s ELSE <<>>

\* C1: for every ordered prompt set a1..an, v1..vn (each vi a str or None), the
\* built URL's prompt_uniquepromptname is a1,...,an and its prompt_fieldvalue is
\* v1,...,vn, joined by literal commas in input order; a None or empty vi is the
\* empty text at position i (never the text None), so no comma is lost.
C1_PromptParametersJoined ==
    pc = "built" =>
        /\ (\A i \in 1..Len(args.prompts) : args.prompts[i].value.kind \in {"str", "None"})
              => url.kind = "ok"
        /\ url.kind = "ok" =>
              /\ IsCommaJoined(UrlParam(url.url, "prompt_uniquepromptname"),
                               [i \in 1..Len(args.prompts) |-> PromptNameAt(i)])
              /\ IsCommaJoined(UrlParam(url.url, "prompt_fieldvalue"),
                               [i \in 1..Len(args.prompts) |-> PromptTextAt(i)])

C1_Witness ==
    /\ Built
    /\ Len(args.prompts) = 2
    /\ args.prompts[1].value = Str(<<"I">>)
    /\ args.prompts[2].value = None
    /\ UrlParam(url.url, "prompt_fieldvalue") = <<"I", ",">>

AllStrPrompts == \A i \in 1..Len(args.prompts) : args.prompts[i].value.kind = "str"

CommaFreePrompts ==
    \A i \in 1..Len(args.prompts) :
        ~HasComma(args.prompts[i].name) /\ ~HasComma(PromptTextAt(i))

\* The two emitted parameters, split on commas, have the same number of fields
\* and field i of each is the name and the value of prompt i.
SplitAligned ==
    LET names == Split(UrlParam(url.url, "prompt_uniquepromptname"), ",")
        values == Split(UrlParam(url.url, "prompt_fieldvalue"), ",")
    IN  /\ Len(names) = Len(values)
        /\ \A i \in 1..Len(args.prompts) :
              /\ i <= Len(names)
              /\ names[i] = PromptNameAt(i)
              /\ values[i] = PromptTextAt(i)
        /\ Len(args.prompts) > 0 => Len(names) = Len(args.prompts)

\* C7 as stated: for every prompt set of str names and values, also ones that
\* hold a comma, the two parameters split on commas are aligned with the prompts.
C7_SplitAligned_AnyStrings == (Built /\ AllStrPrompts) => SplitAligned

\* C7 amended: for every prompt set whose names and values hold no comma, the two
\* parameters split on commas have the same length and field i of each is the
\* name and the value of prompt i; an empty value still has its position.
C7_SplitAligned_CommaFree == (Built /\ AllStrPrompts /\ CommaFreePrompts) => SplitAligned

C7_Witness ==
    /\ Built
    /\ AllStrPrompts
    /\ CommaFreePrompts
    /\ Len(args.prompts) = 2
    /\ args.prompts[1].value = Str(<<>>)
    /\ Len(Split(UrlParam(url.url, "prompt_fieldvalue"), ",")) = 2

EndsWithSlash(s) == s # <<>> /\ s[Len(s)] = "/"

\* C8: the URL is {base}/{security}/{query_name}/{output_path} less its trailing
\* slashes (so the path never ends in "/", and base carries none), then "?" and
\* exactly the four parameters isconnectedquery, maxrows, prompt_uniquepromptname,
\* prompt_fieldvalue in that order; query_name and security are passed through.
C8_UrlShape ==
    /\ ~EndsWithSlash(client.base_url)
    /\ Built =>
          LET u == url.url
              q == Minimum({j \in 1..Len(u) : IsKeyword(u[j])}) - 1
              path == SubSeq(u, 1, q - 1)
              composed == client.base_url \o <<"/">> \o args.security \o <<"/">>
                              \o args.query_name \o <<"/">> \o args.output_path
          IN  /\ q >= 1 /\ u[q] = "?"
              /\ ~EndsWithSlash(path)
              /\ Len(path) <= Len(composed)
              /\ SubSeq(composed, 1, Len(path)) = path
              /\ \A i \in (Len(path) + 1)..Len(composed) : composed[i] = "/"
              /\ SelectSeq(u, IsKeyword)
                    = <<"isconnectedquery", "maxrows", "prompt_uniquepromptname",
                        "prompt_fieldvalue">>
              /\ \A i \in 1..Len(u) :
                    IsKeyword(u[i]) =>
                        /\ i < Len(u) /\ u[i + 1] = "="
                        /\ u[i - 1] = IF i = q + 1 THEN "?" ELSE "&"
              /\ UrlParam(u, "isconnectedquery") = args.isconnectedquery
              /\ DecimalValue(UrlParam(u, "maxrows")) = args.maxrows

C8_Witness ==
    /\ Built
    /\ args.output_path = <<>>
    /\ args.query_name = <<>>
    /\ args.security # <<>>
    /\ args.maxrows = 1000
(***************************************************************************)
(* execute_query, seen by its caller and by the network.                   *)
(***************************************************************************)
Contains(s, sub) ==
    \E i \in 0..(Len(s) - Len(sub)) : SubSeq(s, i + 1, i + Len(sub)) = sub

\* An invocation has ended: execute_query returned or raised.
Ended == pc = "ready" /\ calls > 0

\* The invocation received an HTTP response.
GotResponse == resp.kind = "response"

\* C2: for every response whose status is outside 200-299 (1xx and 3xx as well
\* as 4xx and 5xx), execute_query does not return the body: it raises the remote
\* rejection error, whose message holds the status code and the full body.
C2_NonSuccessRaises ==
    (Ended /\ GotResponse /\ ~(200 <= resp.status_code /\ resp.status_code <= 299)) =>
        /\ outcome.kind = "RuntimeError"
        /\ Contains(outcome.value, FormatInt(resp.status_code))
        /\ Contains(outcome.value, resp.text)

C5_WitnessBuildFails ==
    /\ Ended
    /\ url.kind = "TypeError"
    /\ gets = <<>>

\* A session token is configured: one was given and it is not the empty text.
TokenConfigured == client.ps_token.kind = "str" /\ client.ps_token.s # <<>>

\* C9: the GET carries Basic credentials iff a credential pair is configured and
\* the cookie PS_TOKEN with the session token iff a session token is configured;
\* the two are independent, and with neither the request is unauthenticated.
C9_AuthAndCookie ==
    \A i \in 1..Len(gets) :
        /\ gets[i].auth.kind = "pair" <=> client.auth.kind = "pair"
        /\ gets[i].auth = client.auth
        /\ <<"PS_TOKEN", client.ps_token.s>> \in gets[i].cookies <=> TokenConfigured
        /\ \A c \in gets[i].cookies : c = <<"PS_TOKEN", client.ps_token.s>>
        /\ (client.auth.kind = "None" /\ ~TokenConfigured) =>
              gets[i].auth = NoAuth /\ gets[i].cookies = {}

C9_Witness ==
    /\ Len(gets) = 1
    /\ client.auth.kind = "None"
    /\ TokenConfigured
    /\ gets[1].cookies = {<<"PS_TOKEN", <<"t">>>>}
    /\ gets[1].auth = NoAuth

\* C10: a failure of the GET before any response is received leaves
\* execute_query as a transport error, distinct from the remote rejection error:
\* never turned into that error, never swallowed, never a returned body; and the
\* remote rejection error is raised for a received response only.
C10_TransportErrorPropagates ==
    Ended =>
        /\ (Len(gets) = 1 /\ ~GotResponse) =>
              /\ outcome.kind \in TransportErrors
              /\ outcome.kind \notin {"RuntimeError", "return", "none"}
        /\ outcome.kind \in TransportErrors => Len(gets) = 1 /\ ~GotResponse
        /\ outcome.kind = "RuntimeError" => GotResponse

C10_Witness ==
    /\ Ended
    /\ Len(gets) = 1
    /\ ~GotResponse
    /\ outcome.kind = "ConnectionError"
(***************************************************************************)
(* The XML text, read from its tokens alone by nesting depth.              *)
(***************************************************************************)
Maximum(S) == CHOOSE x \in S : \A y \in S : x >= y

\* The number of elements open after token i.
Depth(t, i) ==
    Cardinality({j \in 1..i : t[j].t = "start"}) - Cardinality({j \in 1..i : t[j].t = "end"})

\* The start tag that the end tag at i closes.
OpenerOf(t, i) == Maximum({j \in 1..(i - 1) : t[j].t = "start" /\ Depth(t, j) = Depth(t, i) + 1})

\* One root element, every end tag closing the tag it names, nothing after the
\* root, no namespace URI that holds "}".
WellFormed(t) ==
    /\ t # <<>>
    /\ t[1].t = "start"
    /\ Depth(t, Len(t)) = 0
    /\ \A i \in 1..(Len(t) - 1) : Depth(t, i) >= 1
    /\ \A i \in 1..Len(t) :
          /\ t[i].t = "end" =>
                t[OpenerOf(t, i)].local = t[i].local /\ t[OpenerOf(t, i)].uri = t[i].uri
          /\ t[i].t = "start" => \A k \in 1..Len(t[i].uri) : t[i].uri[k] # "}"

\* The start tags of the elements whose local name is row, in document order.
RowStarts(t) ==
    SelectSeq([i \in 1..Len(t) |-> i], LAMBDA i : t[i].t = "start" /\ t[i].local = RowName)

\* The end tag of the element that starts at i.
CloserOf(t, i) == Minimum({j \in (i + 1)..Len(t) : t[j].t = "end" /\ Depth(t, j) = Depth(t, i) - 1})

\* The start tags of the immediate child elements of the element that starts at i.
ChildStarts(t, i) ==
    {j \in (i + 1)..(CloserOf(t, i) - 1) : t[j].t = "start" /\ Depth(t, j) = Depth(t, i) + 1}

\* The start tags of the deeper descendants of the element that starts at i.
DeeperStarts(t, i) ==
    {j \in (i + 1)..(CloserOf(t, i) - 1) : t[j].t = "start" /\ Depth(t, j) > Depth(t, i) + 1}

\* The character data right after the start tag at j: the element's text.
TextAfter(t, j) == IF j < Len(t) /\ t[j + 1].t = "text" THEN t[j + 1].s ELSE <<>>

\* s from its first to its last symbol that is not whitespace.
Trimmed(s) ==
    LET solid == {k \in 1..Len(s) : s[k] \notin Whitespace}
    IN  IF solid = {} THEN <<>> ELSE SubSeq(s, Minimum(solid), Maximum(solid))

\* The mapping a row element stands for: a key for each local name among its
\* immediate children, with the trimmed text of the last child of that name.
ExpectedRow(t, i) ==
    [k \in {t[j].local : j \in ChildStarts(t, i)} |->
        Trimmed(TextAfter(t, Maximum({j \in ChildStarts(t, i) : t[j].local = k})))]

Parsed == pc = "parsed"
ParsedOk == pc = "parsed" /\ parsed.kind = "ok"

\* C3: the result has exactly one mapping for every element whose local name is
\* row, at any depth and under any ancestor (the root, another row), in document
\* order; a well-formed document without one gives the empty sequence and no
\* error; the namespace of the elements makes no difference.
C3_OneRowPerRowElement ==
    /\ (Parsed /\ WellFormed(xml_text)) => parsed.kind = "ok"
    /\ ParsedOk =>
          /\ Len(parsed.rows) = Len(RowStarts(xml_text))
          /\ \A n \in 1..Len(parsed.rows) :
                parsed.rows[n] = ExpectedRow(xml_text, RowStarts(xml_text)[n])

\* A namespaced document whose root is a row that holds a row and a field.
C3_Witness ==
    /\ ParsedOk
    /\ xml_text[1].uri = <<"u">>
    /\ Len(parsed.rows) = 2
    /\ RowStarts(xml_text) = <<1, 2>>
    /\ DOMAIN parsed.rows[1] = {RowName}
    /\ parsed.rows[2] # parsed.rows[1]

C3_WitnessNoRows ==
    /\ ParsedOk
    /\ Len(xml_text) > 2
    /\ parsed.rows = <<>>

\* C4: a row's mapping has as keys exactly the local names of the row's immediate
\* child elements (deeper descendants give no key), each with the trimmed text of
\* the last immediate child of that name, the empty text when that child has no
\* text or only whitespace; no key is missing and no value is null.
C4_RowFields ==
    ParsedOk =>
        \A n \in 1..Len(parsed.rows) :
            LET i == RowStarts(xml_text)[n]
                kids == ChildStarts(xml_text, i)
                row == parsed.rows[n]
                LastOf(k) == Maximum({j \in kids : xml_text[j].local = k})
            IN  /\ DOMAIN row = {xml_text[j].local : j \in kids}
                /\ \A k \in DOMAIN row :
                      /\ row[k] = Trimmed(TextAfter(xml_text, LastOf(k)))
                      /\ row[k] \in Seq(Whitespace \cup {"1", "2"})
                      /\ (\A c \in 1..Len(TextAfter(xml_text, LastOf(k))) :
                              TextAfter(xml_text, LastOf(k))[c] \in Whitespace)
                            => row[k] = <<>>
                      /\ row[k] # <<>> =>
                            row[k][1] \notin Whitespace /\ row[k][Len(row[k])] \notin Whitespace

\* A row with two children named A, the first with text and the last without.
C4_Witness ==
    /\ ParsedOk
    /\ Len(parsed.rows) = 1
    /\ xml_text[1].local = RowName
    /\ Cardinality(ChildStarts(xml_text, 1)) = 2
    /\ \A j \in ChildStarts(xml_text, 1) : xml_text[j].local = <<"A">>
    /\ TextAfter(xml_text, 2) = <<" ", "1", " ", "2", "\n">>
    /\ parsed.rows[1] = [k \in {<<"A">>} |-> <<>>]

C4_WitnessDeeper ==
    /\ ParsedOk
    /\ Len(parsed.rows) = 1
    /\ xml_text[1].local = RowName
    /\ DeeperStarts(xml_text, 1) # {}
    /\ parsed.rows[1] = [k \in {<<"A">>} |-> <<"1", " ", "2">>]

\* C6: a text that is not well-formed makes the call raise the parse error and
\* return no row list, not even the rows before the malformed point; no error
\* becomes an empty list: the empty list is returned only for a well-formed
\* document without a row element.
C6_NoPartialResult ==
    Parsed =>
        /\ ~WellFormed(xml_text) => parsed.kind = "ParseError" /\ parsed.rows = <<>>
        /\ (parsed.kind = "ok" /\ parsed.rows = <<>>) =>
              WellFormed(xml_text) /\ RowStarts(xml_text) = <<>>
        /\ parsed.kind \in {"ok", "ParseError"}

\* A text cut short after a complete row element.
C6_Witness ==
    /\ Parsed
    /\ parsed.kind = "ParseError"
    /\ Len(xml_text) >= 3
    /\ xml_text[2] = StartTag(<<>>, RowName)
    /\ xml_text[Len(xml_text)] = EndTag(<<>>, RowName)
    /\ Depth(xml_text, Len(xml_text)) = 1
====
